---- MODULE Spec2Model ----
(***************************************************************************)
(* Change-detection and automation control loop of the AVA screen          *)
(* assistant: the scheduling loop (runAutomationLoop), the start/stop      *)
(* effect, performAnalysis, handleAutoPilot, the analyzer's retry policy   *)
(* and the OCR text heuristics.                                            *)
(*                                                                         *)
(* Texts are sequences of one-character strings.  Confidence scores and    *)
(* thresholds are hundredths (0.7 is 70).  Every await of the source is a  *)
(* position (pc) of a task; the code between two awaits is one action.     *)
(***************************************************************************)
EXTENDS Integers, Sequences, FiniteSets, TLC

\* ------------------------------------------------------------------------
\* Characters and the string primitives the code uses
\* ------------------------------------------------------------------------
UpperChars == <<"A", "B", "C", "D", "E", "F", "G", "H", "I", "J", "K", "L", "M",
                "N", "O", "P", "Q", "R", "S", "T", "U", "V", "W", "X", "Y", "Z">>

LowerChars == <<"a", "b", "c", "d", "e", "f", "g", "h", "i", "j", "k", "l", "m",
                "n", "o", "p", "q", "r", "s", "t", "u", "v", "w", "x", "y", "z">>

Digits == {"0", "1", "2", "3", "4", "5", "6", "7", "8", "9"}

Whitespace == {" ", "\n", "\t"}

UpperSet == {UpperChars[i] : i \in 1..26}

LetterSet == UpperSet \cup {LowerChars[i] : i \in 1..26}

\* \w of a JavaScript regular expression
WordCharSet == LetterSet \cup Digits \cup {"_"}

LowerOf == [c \in UpperSet |-> LowerChars[CHOOSE i \in 1..26 : UpperChars[i] = c]]

IsLetter(c) == c \in LetterSet

IsWordChar(c) == c \in WordCharSet

LowerChar(c) == IF c \in UpperSet THEN LowerOf[c] ELSE c

\* String.prototype.toLowerCase
ToLowerCase(s) == [i \in 1..Len(s) |-> LowerChar(s[i])]

\* s.replace(/\d+/g, '#'): every maximal run of digits becomes one '#'
RECURSIVE ReplaceDigitRuns(_)
ReplaceDigitRuns(s) ==
    IF s = <<>> THEN <<>>
    ELSE IF Head(s) \in Digits
         THEN IF Len(s) > 1 /\ s[2] \in Digits
              THEN ReplaceDigitRuns(Tail(s))
              ELSE <<"#">> \o ReplaceDigitRuns(Tail(s))
         ELSE <<Head(s)>> \o ReplaceDigitRuns(Tail(s))

\* s.replace(/\s+/g, ' '): every maximal run of whitespace becomes one space
RECURSIVE CollapseSpaces(_)
CollapseSpaces(s) ==
    IF s = <<>> THEN <<>>
    ELSE IF Head(s) \in Whitespace
         THEN IF Len(s) > 1 /\ s[2] \in Whitespace
              THEN CollapseSpaces(Tail(s))
              ELSE <<" ">> \o CollapseSpaces(Tail(s))
         ELSE <<Head(s)>> \o CollapseSpaces(Tail(s))

RECURSIVE TrimLeft(_)
TrimLeft(s) ==
    IF s # <<>> /\ Head(s) \in Whitespace THEN TrimLeft(Tail(s)) ELSE s

RECURSIVE TrimRight(_)
TrimRight(s) ==
    IF s # <<>> /\ s[Len(s)] \in Whitespace
    THEN TrimRight(SubSeq(s, 1, Len(s) - 1))
    ELSE s

\* String.prototype.trim
Trim(s) == TrimRight(TrimLeft(s))

\* s.split(/\s+/): the pieces between whitespace runs, empty pieces at the
\* ends kept, [""] for the empty string
RECURSIVE SplitFrom(_, _)
SplitFrom(s, cur) ==
    IF s = <<>> THEN <<cur>>
    ELSE IF Head(s) \in Whitespace
         THEN <<cur>> \o SplitFrom(TrimLeft(s), <<>>)
         ELSE SplitFrom(Tail(s), Append(cur, Head(s)))

SplitWhitespace(s) == SplitFrom(s, <<>>)

SeqToSet(q) == {q[i] : i \in 1..Len(q)}

\* ------------------------------------------------------------------------
\* ocrService: calculateTextSimilarity, isTextSubset
\* ------------------------------------------------------------------------
WordSet(t) == SeqToSet(SplitWhitespace(ToLowerCase(t)))

\* calculateTextSimilarity dividing by the size of the first text's word set
calculateTextSimilarityOverFirst(text1, text2) ==
    IF text1 = <<>> \/ text2 = <<>> THEN <<0, 1>>
    ELSE LET set1 == WordSet(text1)
             set2 == WordSet(text2)
         IN  <<Cardinality(set1 \cap set2), Cardinality(set1)>>

\* Jaccard similarity as the pair <<|A n B|, |A u B|>>; <<0, 1>> is 0
calculateTextSimilarity(text1, text2) ==
    IF text1 = <<>> \/ text2 = <<>> THEN <<0, 1>>
    ELSE LET set1 == WordSet(text1)
             set2 == WordSet(text2)
         IN  <<Cardinality(set1 \cap set2), Cardinality(set1 \cup set2)>>

IsCleanChar(c) == IsWordChar(c) \/ c \in Whitespace

\* clean(t) of isTextSubset
clean(t) ==
    SelectSeq(SplitWhitespace(SelectSeq(ToLowerCase(t), IsCleanChar)),
              LAMBDA w : Len(w) > 2)

\* lines 103-106: the child words found among the parent words
MatchCount(parentWords, childWords) ==
    Cardinality({i \in 1..Len(childWords) : childWords[i] \in parentWords})

\* isTextSubset answering true for every empty child
isTextSubsetEmptyChild(parentText, childText) ==
    IF childText = <<>> THEN TRUE
    ELSE IF parentText = <<>> THEN FALSE
    ELSE LET parentWords == SeqToSet(clean(parentText))
             childWords == clean(childText)
         IN  IF Len(childWords) = 0 THEN TRUE
             ELSE 10 * MatchCount(parentWords, childWords) > 8 * Len(childWords)

\* isTextSubset asking for 0.4 of the child's words instead of 0.8
isTextSubsetLoose(parentText, childText) ==
    IF parentText = <<>> \/ childText = <<>> THEN FALSE
    ELSE LET parentWords == SeqToSet(clean(parentText))
             childWords == clean(childText)
         IN  IF Len(childWords) = 0 THEN TRUE
             ELSE 10 * MatchCount(parentWords, childWords) > 4 * Len(childWords)

\* lines 92-111; matchCount / childWords.length > 0.8 in tenths
isTextSubset(parentText, childText) ==
    IF parentText = <<>> \/ childText = <<>> THEN FALSE
    ELSE LET parentWords == SeqToSet(clean(parentText))
             childWords == clean(childText)
         IN  IF Len(childWords) = 0 THEN TRUE
             ELSE 10 * MatchCount(parentWords, childWords) > 8 * Len(childWords)

\* ------------------------------------------------------------------------
\* Screens: what the captured display can show, as the raw text the OCR
\* engine reads from it
\* ------------------------------------------------------------------------
TextBlank == <<>>

TextShort == <<"L", "o", "a", "d", "i", "n", "g", " ", "1", "0">>

TextQuestion == <<"Q", "u", "e", "s", "t", "i", "o", "n", ":", " ", "2", "+", "2", "=", "?",
                  " ", "A", ")", " ", "3", " ", "B", ")", " ", "4">>

TextFeedback == <<"Q", "u", "e", "s", "t", "i", "o", "n", ":", " ", "2", "+", "2", "=", "?",
                  " ", "A", ")", " ", "3", " ", "B", ")", " ", "4", " ",
                  "[", "c", "o", "r", "r", "e", "c", "t", "]">>

TextOther == <<"W", "h", "i", "c", "h", " ", "p", "l", "a", "n", "e", "t", " ", "i", "s", " ",
               "l", "a", "r", "g", "e", "s", "t", "?", " ", "M", "a", "r", "s", " ",
               "J", "u", "p", "i", "t", "e", "r">>

\* TextOther as a noisy read: a word dropped and stray glyphs added
TextNoisy == <<"W", "h", "i", "c", "h", " ", "p", "l", "a", "n", "e", "t", " ",
               "l", "a", "r", "g", "e", "s", "t", " ", "M", "a", "r", "s", " ",
               "J", "u", "p", "i", "t", "e", "r", " ", "a", " ", "b", " ", "c", " ", "d",
               " ", "e", " ", "f", " ", "g", " ", "h", " ", "i", " ", "j">>

\* A frame is identified by the screen it was captured from; 0 is "no frame"
ScreenText == <<TextQuestion, TextOther, TextFeedback, TextShort, TextBlank, TextNoisy>>

NoFrame == 0

\* ------------------------------------------------------------------------
\* types.ts and DEFAULT_SETTINGS
\* ------------------------------------------------------------------------
FALLBACK_MODEL == "gemini-flash-lite-latest"

PRO_MODEL == "gemini-3-pro-preview"

DEFAULT_SETTINGS ==
    [automationEnabled |-> FALSE, triggerTime |-> FALSE, triggerSmart |-> TRUE,
     triggerHybrid |-> TRUE, smartScanSensitivity |-> 50, confidenceThreshold |-> 70,
     autoSelect |-> FALSE, autoNext |-> FALSE, modelName |-> FALLBACK_MODEL,
     apiKey |-> FALSE]

NoBox == <<>>

\* QuestionOption; boundingBox is <<ymin, xmin, ymax, xmax>> in hundredths or NoBox
Option(text, isCorrect, confidenceScore, boundingBox) ==
    [text |-> text, isCorrect |-> isCorrect, confidenceScore |-> confidenceScore,
     boundingBox |-> boundingBox]

\* QuestionData of a parsed reply
Question(options) == [options |-> options]

\* AnalysisResult.  options is the legacy single-question field; hasOptions is
\* FALSE where the field is undefined.  error is <<>> where the field is absent.
Result(hasQuestion, questions, hasOptions, options, nextButton, error, modelUsed, attempts) ==
    [hasQuestion |-> hasQuestion, questions |-> questions, hasOptions |-> hasOptions,
     options |-> options, nextButton |-> nextButton, error |-> error,
     modelUsed |-> modelUsed, attempts |-> attempts]

\* useState<AnalysisResult | null>: <<>> is null, <<r>> holds r
NoResult == <<>>

ErrorResult(msg) == Result(FALSE, <<>>, TRUE, <<>>, NoBox, msg, "", 0)

\* ------------------------------------------------------------------------
\* geminiService: analyzeScreenFrame
\* One reply of the generative backend to one attempt:
\*   kind "throw": generateContent rejects with message msg
\*   kind "empty": the reply has no text
\*   kind "bad"  : the reply has text that JSON.parse rejects
\*   kind "json" : the reply parses to the object body
\* ------------------------------------------------------------------------
Reply(kind, msg, body) == [kind |-> kind, msg |-> msg, body |-> body]

NoBody == [hasQuestion |-> FALSE, questions |-> <<>>, nextButton |-> NoBox]

Body(hasQuestion, questions, nextButton) ==
    [hasQuestion |-> hasQuestion, questions |-> questions, nextButton |-> nextButton]

maxRetriesAnalyze == 3

MsgEmpty == <<"E", "m", "p", "t", "y", " ", "r", "e", "s", "p", "o", "n", "s", "e">>

MsgSyntax == <<"U", "n", "e", "x", "p", "e", "c", "t", "e", "d", " ", "t", "o", "k", "e", "n">>

MsgSupport == <<"M", "o", "d", "e", "l", " ", "d", "o", "e", "s", " ", "n", "o", "t", " ",
                "s", "u", "p", "p", "o", "r", "t", " ", "m", "u", "l", "t", "i", "m", "o",
                "d", "a", "l", " ", "c", "o", "n", "t", "e", "x", "t">>

\* the message of the error an attempt ends with: what generateContent
\* rejected with, line 227, or the SyntaxError of JSON.parse
AttemptError(reply) ==
    CASE reply.kind = "throw" -> reply.msg
      [] reply.kind = "empty" -> MsgEmpty
      [] OTHER -> MsgSyntax

\* ParsedResult taking the legacy fields from the last question
ParsedResultLastQuestion(body, currentModel, attempt) ==
    IF body.hasQuestion /\ Len(body.questions) > 0
    THEN Result(TRUE, body.questions, TRUE, body.questions[Len(body.questions)].options,
                body.nextButton, <<>>, currentModel, attempt)
    ELSE Result(body.hasQuestion, body.questions, FALSE, <<>>,
                body.nextButton, <<>>, currentModel, attempt)

\* lines 207-225: the result built from a parsed reply
ParsedResult(body, currentModel, attempt) ==
    IF body.hasQuestion /\ Len(body.questions) > 0
    THEN Result(TRUE, body.questions, TRUE, body.questions[1].options,
                body.nextButton, <<>>, currentModel, attempt)
    ELSE Result(body.hasQuestion, body.questions, FALSE, <<>>,
                body.nextButton, <<>>, currentModel, attempt)

\* ProbeResult with the probe's text taken for a solved question
ProbeResultSolved(currentModel, attempt) ==
    Result(TRUE, <<Question(<<Option("four", TRUE, 100, NoBox)>>)>>, TRUE,
           <<Option("four", TRUE, 100, NoBox)>>, NoBox, <<>>, currentModel, attempt)

\* lines 195-205: the result of the transcription-only probe
ProbeResult(currentModel, attempt) ==
    Result(TRUE, <<>>, TRUE, <<>>, NoBox, <<>>, currentModel, attempt)

\* line 230
NextModel(currentModel, attempt) ==
    IF currentModel # FALLBACK_MODEL /\ attempt >= 2 THEN FALLBACK_MODEL ELSE currentModel

\* AnalyzeFrom giving up after the second attempt
RECURSIVE AnalyzeFromTwoAttempts(_, _, _)
AnalyzeFromTwoAttempts(attempt, currentModel, replies) ==
    LET reply == replies[attempt]
    IN  IF reply.kind = "json"
        THEN ParsedResult(reply.body, currentModel, attempt)
        ELSE IF attempt >= 2
        THEN ErrorResult(AttemptError(reply))
        ELSE AnalyzeFromTwoAttempts(attempt + 1, NextModel(currentModel, attempt), replies)

\* lines 83-233: the retry loop from attempt number attempt on
RECURSIVE AnalyzeFrom(_, _, _)
AnalyzeFrom(attempt, currentModel, replies) ==
    LET reply == replies[attempt]
        isProbeAttempt == attempt = maxRetriesAnalyze
    IN  IF reply.kind \in {"json", "bad"} /\ isProbeAttempt
        THEN ProbeResult(currentModel, attempt)
        ELSE IF reply.kind = "json"
        THEN ParsedResult(reply.body, currentModel, attempt)
        ELSE IF attempt >= maxRetriesAnalyze
        THEN ErrorResult(AttemptError(reply))
        ELSE AnalyzeFrom(attempt + 1, NextModel(currentModel, attempt), replies)

\* lines 26-246; supportError is validateModelSupport's verdict
analyzeScreenFrame(modelName, supportError, replies) ==
    IF supportError THEN ErrorResult(MsgSupport)
    ELSE AnalyzeFrom(1, modelName, replies)

\* String.prototype.includes
Includes(s, sub) ==
    \E i \in 0..(Len(s) - Len(sub)) : SubSeq(s, i + 1, i + Len(sub)) = sub

SubQuota == <<"Q", "u", "o", "t", "a">>

Sub429 == <<"4", "2", "9">>

\* IsQuotaError without the test for '429'
IsQuotaErrorWordOnly(error) == Includes(error, SubQuota)

\* line 547: result.error.includes('Quota') || result.error.includes('429')
IsQuotaError(error) == Includes(error, SubQuota) \/ Includes(error, Sub429)

\* ------------------------------------------------------------------------
\* Bounds of the model
\* ------------------------------------------------------------------------
\* scheduling chains (runAutomationLoop invocations alive at once) the model
\* has room for
LoopIds == {1, 2}

ManualIds == {3}

TaskIds == LoopIds \cup ManualIds

\* ------------------------------------------------------------------------
\* State
\* ------------------------------------------------------------------------
VARIABLES
    appState,                \* useState<AppState>
    stream,                  \* useState<MediaStream | null>: TRUE when present
    settings,                \* useState<AppSettings>
    lastResult,              \* useState<AnalysisResult | null>
    effectPending,           \* a dependency of the start/stop effect changed
    processingRef,           \* isBusy
    lastOcrTextRef,          \* lastObservedText
    lastScreenshotRef,       \* lastAnalyzedFrame
    isAutomationRunningRef,  \* isRunning
    ocrStabilityCounterRef,  \* stabilityCounter
    automationTimeoutRef,    \* the task whose timer the ref names, 0 for none
    task,                    \* the asynchronous activities and their positions
    screen,                  \* what the display shows now
    env,                     \* what the collaborators can answer in this run
    tickLog,                 \* verdicts of the hybrid ticks so far
    ticks,                   \* tick bodies started
    events,                  \* user events so far
    scans                    \* manual scans so far

vars == <<appState, stream, settings, lastResult, effectPending, processingRef,
          lastOcrTextRef, lastScreenshotRef, isAutomationRunningRef,
          ocrStabilityCounterRef, automationTimeoutRef, task, screen, env,
          tickLog, ticks, events, scans>>

reactVars == <<appState, stream, settings, lastResult, effectPending>>

refVars == <<processingRef, lastOcrTextRef, lastScreenshotRef, isAutomationRunningRef,
             ocrStabilityCounterRef, automationTimeoutRef>>

worldVars == <<screen, env>>

NoOption == Option("", FALSE, 0, NoBox)

\* An activity.  cfg and cstream are the settings and stream its closure
\* captured; option, attempts, sent, verifications, missed (attempts whose
\* verification frame was null), verifiedAt (the attempt whose verification
\* first reported the option selected), calls and report record what the
\* current (or last) performAnalysis did.  fault is TRUE once an exception
\* has unwound the activity; oracle is what checkForNewQuestion last answered
\* it ("new", "same", "error"), kept between ticks in the runs that keep
\* history; served is how the backend served the attempts of its last
\* analyzeScreenFrame call, recorded in the runs that keep history.
NoCall == [supportError |-> FALSE, replies |-> <<>>]

IdleTask ==
    [pc |-> "idle", cfg |-> DEFAULT_SETTINGS, cstream |-> FALSE, img |-> NoFrame,
     option |-> NoOption, nextButton |-> NoBox, attempts |-> 0, verified |-> FALSE,
     sent |-> <<>>, verifications |-> 0, missed |-> 0, verifiedAt |-> 0, calls |-> 0,
     report |-> "", fault |-> FALSE, oracle |-> "", served |-> NoCall]

\* positions at which a remote collaborator call is in flight
RemotePcs == {"checkForNewQuestion", "analyzeScreenFrame", "verifySelection"}

\* positions inside performAnalysis
AnalysisPcs == {"paDetectText", "analyzeScreenFrame", "settle", "verifySelection"}

\* ------------------------------------------------------------------------
\* App: captureFrame, detectText as seen by the caller
\* ------------------------------------------------------------------------
\* what a call returns when it throws instead
Thrown == -1

\* captureFrame: null without a mounted, playing video element; drawImage and
\* toDataURL (lines 434-435) can throw
CaptureResults ==
    (IF stream THEN {screen} \cup (IF env.captureFails THEN {NoFrame} ELSE {})
     ELSE {NoFrame})
    \cup (IF "captureFrame" \in env.throws THEN {Thrown} ELSE {})

\* detectText: the trimmed text of the frame, "" when the OCR engine fails
OcrResults(img) ==
    {Trim(ScreenText[img])} \cup (IF env.ocrFails THEN {<<>>} ELSE {})

IsNormalChar(c) == IsLetter(c) \/ c = "#" \/ c \in Whitespace

\* lines 604-609
NormalizeText(rawText) ==
    ToLowerCase(Trim(CollapseSpaces(SelectSeq(ReplaceDigitRuns(rawText), IsNormalChar))))

\* lines 615-616, in thousandths
\* Threshold with sensitivity / 100 taken as the threshold itself
ThresholdIsSensitivity(sensitivity) == 10 * sensitivity

Threshold(sensitivity) == 200 + 6 * sensitivity

\* similarity < threshold for similarity = <<n, d>>
SimilarityBelow(sim, threshold) == 1000 * sim[1] < threshold * sim[2]

minTextLength == 15

\* RawChange without the two subset verdicts
RawChangeSimilarityOnly(text, lastText, sensitivity) ==
    /\ SimilarityBelow(calculateTextSimilarity(text, lastText), Threshold(sensitivity))
    /\ Len(text) > minTextLength

\* RawChange without the test of the text's length
RawChangeAnyLength(text, lastText, sensitivity) ==
    /\ ~isTextSubset(lastText, text)
    /\ ~isTextSubset(text, lastText)
    /\ SimilarityBelow(calculateTextSimilarity(text, lastText), Threshold(sensitivity))

\* line 618
RawChange(text, lastText, sensitivity) ==
    /\ ~isTextSubset(lastText, text)
    /\ ~isTextSubset(text, lastText)
    /\ SimilarityBelow(calculateTextSimilarity(text, lastText), Threshold(sensitivity))
    /\ Len(text) > minTextLength

stabilityTarget == 3

\* lines 625-631: the tick escalates to the oracle
Escalates(rawChange, counter) == rawChange /\ counter + 1 >= stabilityTarget

\* StabilityAfter without the reset of line 630
StabilityAfterCount(rawChange, counter) == IF rawChange THEN counter + 1 ELSE 0

\* StabilityAfter without the reset of lines 632-634
StabilityAfterKeep(rawChange, counter) ==
    IF rawChange
    THEN IF counter + 1 >= stabilityTarget THEN 0 ELSE counter + 1
    ELSE counter

\* lines 625-634: the stability counter after the tick
StabilityAfter(rawChange, counter) ==
    IF rawChange
    THEN IF counter + 1 >= stabilityTarget THEN 0 ELSE counter + 1
    ELSE 0

\* ------------------------------------------------------------------------
\* App: handleAutoPilot
\* ------------------------------------------------------------------------
maxRetries == 5

Action(type, x, y, text) == [type |-> type, x |-> x, y |-> y, text |-> text]

\* SelectSequence with the text-match click sent first
SelectSequenceTextFirst(option) ==
    <<Action("text_click", 0, 0, option.text)>>
    \o (IF option.boundingBox # NoBox
        THEN <<Action("click", option.boundingBox[2] + option.boundingBox[4],
                      option.boundingBox[1] + option.boundingBox[3], "")>>
        ELSE <<>>)

\* lines 449-468.  x and y are the sums xmin+xmax and ymin+ymax, that is the
\* centre in two-hundredths
SelectSequence(option) ==
    (IF option.boundingBox # NoBox
     THEN <<Action("click", option.boundingBox[2] + option.boundingBox[4],
                   option.boundingBox[1] + option.boundingBox[3], "")>>
     ELSE <<>>)
    \o <<Action("text_click", 0, 0, option.text)>>

\* lines 495-501
NextSequence(nextButtonBox) ==
    IF nextButtonBox # NoBox
    THEN <<Action("click", nextButtonBox[2] + nextButtonBox[4],
                  nextButtonBox[1] + nextButtonBox[3], "Click Next")>>
    ELSE <<Action("next_click", 0, 0, "")>>

IsNextSequence(sequence) ==
    sequence[Len(sequence)].type = "next_click" \/ sequence[Len(sequence)].text = "Click Next"

\* lines 445-474: one more pass of the while loop, up to its settle delay
StartAttempt(tk) ==
    [tk EXCEPT !.attempts = @ + 1,
               !.sent = Append(@, SelectSequence(tk.option)),
               !.pc = "settle"]

\* AfterLoop without the clickNext test of line 493
AfterLoopAlwaysNext(tk) ==
    IF tk.verified
    THEN [tk EXCEPT !.sent = Append(@, NextSequence(tk.nextButton)),
                    !.report = "confirmed", !.pc = "finally"]
    ELSE [tk EXCEPT !.report = "failed", !.pc = "finally"]

\* lines 493-509: after the while loop; the activity is then at the end of
\* performAnalysis
AfterLoop(tk) ==
    IF tk.verified /\ tk.cfg.autoNext
    THEN [tk EXCEPT !.sent = Append(@, NextSequence(tk.nextButton)),
                    !.report = "confirmed", !.pc = "finally"]
    ELSE IF ~tk.verified
    THEN [tk EXCEPT !.report = "failed", !.pc = "finally"]
    ELSE [tk EXCEPT !.report = "confirmed", !.pc = "finally"]

\* LoopOrExit with the bound of line 445 off by one
LoopOrExitOffByOne(tk) ==
    IF tk.attempts <= maxRetries /\ ~tk.verified THEN StartAttempt(tk) ELSE AfterLoop(tk)

\* line 445: the loop condition, then the pass or the exit
LoopOrExit(tk) ==
    IF tk.attempts < maxRetries /\ ~tk.verified THEN StartAttempt(tk) ELSE AfterLoop(tk)

\* lines 438-443
handleAutoPilot(tk, option, nextButtonBox) ==
    LoopOrExit([tk EXCEPT !.option = option, !.nextButton = nextButtonBox,
                          !.attempts = 0, !.verified = FALSE])

\* ------------------------------------------------------------------------
\* App: performAnalysis
\* ------------------------------------------------------------------------
\* result.options.find(o => o.isCorrect)
CorrectIndexes(options) == {i \in 1..Len(options) : options[i].isCorrect}

FirstCorrect(options) ==
    options[CHOOSE i \in CorrectIndexes(options) : \A j \in CorrectIndexes(options) : i <= j]

\* PassesGate with the threshold read as a percentage of 1
PassesGateUnscaled(option, cfg) == option.confidenceScore >= cfg.confidenceThreshold \div 100

\* line 566
PassesGate(option, cfg) == option.confidenceScore >= cfg.confidenceThreshold

\* lines 562-574
AutoSelect(tk, result) ==
    IF tk.cfg.autoSelect /\ result.hasQuestion /\ result.hasOptions
    THEN IF CorrectIndexes(result.options) # {}
         THEN IF PassesGate(FirstCorrect(result.options), tk.cfg)
              THEN handleAutoPilot(tk, FirstCorrect(result.options), result.nextButton)
              ELSE [tk EXCEPT !.report = "lowConfidence", !.pc = "finally"]
         ELSE [tk EXCEPT !.report = "noClearAnswer", !.pc = "finally"]
    ELSE [tk EXCEPT !.pc = "finally"]

\* lines 513-530: up to the await of detectText; "return" when the key is missing
EnterAnalysis(tk, img) ==
    IF ~tk.cfg.apiKey
    THEN [tk EXCEPT !.pc = "return"]
    ELSE [tk EXCEPT !.pc = "paDetectText", !.img = img, !.option = NoOption,
                    !.nextButton = NoBox, !.attempts = 0, !.verified = FALSE,
                    !.sent = <<>>, !.verifications = 0, !.missed = 0, !.verifiedAt = 0,
                    !.calls = 0,
                    !.report = "", !.served = NoCall]

\* What stays of an activity between two runs: its closure, and the record of
\* what its last performAnalysis did
Rest(tk, pc) ==
    [tk EXCEPT !.pc = pc, !.img = NoFrame, !.verified = FALSE,
               !.oracle = IF env.history THEN @ ELSE ""]

\* An exception leaves runAutomationLoop (which has no try): the invocation
\* is over and line 655 is never reached
Unwound(tk) == [Rest(tk, "idle") EXCEPT !.fault = TRUE]

\* lines 575-576: an exception inside the try of performAnalysis is caught
Caught(tk) == [tk EXCEPT !.report = "caught", !.pc = "finally"]

\* lines 655-657: the end of a tick
EndTick(tk, running) == IF running THEN Rest(tk, "armed") ELSE Rest(tk, "idle")

TimeoutAfterEnd(t, running, ref) == IF running THEN t ELSE ref

\* Where an activity is once performAnalysis has returned: a tick goes on to
\* its end, a manual scan is over
Settle(t, tk, running) ==
    IF tk.pc \in {"finally", "return", "end"}
    THEN IF t \in LoopIds THEN EndTick(tk, running) ELSE Rest(tk, "idle")
    ELSE tk

TimeoutAfter(t, tk, running, ref) ==
    IF tk.pc \in {"finally", "return", "end"} /\ t \in LoopIds
    THEN TimeoutAfterEnd(t, running, ref)
    ELSE ref

\* processingRef after a step: line 518 on entering performAnalysis, lines
\* 577-578 on leaving it
BusyAfter(tk, busy) ==
    IF tk.pc = "paDetectText" THEN TRUE
    ELSE IF tk.pc = "finally" THEN FALSE
    ELSE busy

\* ------------------------------------------------------------------------
\* App: runAutomationLoop
\* ------------------------------------------------------------------------
\* lines 584-598: a tick up to its first await, or to its end; img is what
\* captureFrame returns if the tick calls it
TickPrefix(tk, running, busy, img) ==
    IF ~running \/ ~tk.cstream THEN Rest(tk, "idle")
    ELSE IF tk.cfg.triggerTime
    THEN IF img = Thrown THEN Unwound(tk)
         ELSE IF img # NoFrame THEN EnterAnalysis(tk, img) ELSE [tk EXCEPT !.pc = "end"]
    ELSE IF tk.cfg.triggerSmart /\ ~busy
    THEN IF img = Thrown THEN Unwound(tk)
         ELSE IF img = NoFrame THEN [tk EXCEPT !.pc = "end"]
         ELSE IF tk.cfg.triggerHybrid
         THEN [tk EXCEPT !.pc = "detectText", !.img = img]
         ELSE [tk EXCEPT !.pc = "checkForNewQuestion", !.img = img]
    ELSE [tk EXCEPT !.pc = "end"]

\* The timer of task t fires: runAutomationLoop runs to its first await
TimerFires(t) ==
    /\ task[t].pc = "armed"
    /\ ticks < env.maxTicks
    /\ \E img \in CaptureResults :
         LET tk == TickPrefix(task[t], isAutomationRunningRef, processingRef, img)
         IN  /\ task' = [task EXCEPT ![t] = Settle(t, tk, isAutomationRunningRef)]
             /\ processingRef' = BusyAfter(tk, processingRef)
             /\ automationTimeoutRef' =
                    TimeoutAfter(t, tk, isAutomationRunningRef, automationTimeoutRef)
    /\ ticks' = ticks + 1
    /\ UNCHANGED <<reactVars, lastOcrTextRef, lastScreenshotRef, isAutomationRunningRef,
                   ocrStabilityCounterRef, worldVars, tickLog, events, scans>>

\* ReferenceAfter leaving the reference text as it is
ReferenceAfterKeep(shouldCheckAI, text, lastText) == lastText

\* lines 627-631: lastOcrTextRef after the tick's verdict
ReferenceAfter(shouldCheckAI, text, lastText) == IF shouldCheckAI THEN text ELSE lastText

\* lines 602-635: detectText has answered a hybrid tick
OcrDone(t) ==
    /\ task[t].pc = "detectText"
    /\ \E rawText \in OcrResults(task[t].img) :
         LET text == NormalizeText(rawText)
             rawChange == RawChange(text, lastOcrTextRef, task[t].cfg.smartScanSensitivity)
             shouldCheckAI == Escalates(rawChange, ocrStabilityCounterRef)
             tk == IF shouldCheckAI
                   THEN [task[t] EXCEPT !.pc = "checkForNewQuestion"]
                   ELSE [task[t] EXCEPT !.pc = "end"]
         IN  /\ ocrStabilityCounterRef' = StabilityAfter(rawChange, ocrStabilityCounterRef)
             /\ lastOcrTextRef' = ReferenceAfter(shouldCheckAI, text, lastOcrTextRef)
             /\ tickLog' = Append(tickLog, [rawChange |-> rawChange,
                                            escalated |-> (tk.pc = "checkForNewQuestion"),
                                            after |-> ocrStabilityCounterRef',
                                            text |-> IF env.history THEN text ELSE <<>>,
                                            ref |-> IF env.history THEN lastOcrTextRef
                                                    ELSE <<>>,
                                            sensitivity |-> task[t].cfg.smartScanSensitivity])
             /\ task' = [task EXCEPT ![t] = Settle(t, tk, isAutomationRunningRef)]
             /\ automationTimeoutRef' =
                    TimeoutAfter(t, tk, isAutomationRunningRef, automationTimeoutRef)
    /\ UNCHANGED <<reactVars, processingRef, lastScreenshotRef, isAutomationRunningRef,
                   worldVars, ticks, events, scans>>

\* what checkForNewQuestion can answer
OracleAnswer(isNew, error) == [isNew |-> isNew, error |-> error]

\* Proceeds on every answer that is not an error
ProceedsUnlessError(answer) == ~answer.error

\* lines 640-642: the tick goes on to the analysis
Proceeds(answer) == ~answer.error /\ answer.isNew

OracleKind(answer) ==
    IF answer.error THEN "error" ELSE IF answer.isNew THEN "new" ELSE "same"

\* AfterOracle returning from the loop on an oracle error
AfterOracleAbortOnError(tk, answer) ==
    IF Proceeds(answer)
    THEN EnterAnalysis([tk EXCEPT !.oracle = OracleKind(answer)], tk.img)
    ELSE IF answer.error
    THEN [Rest(tk, "idle") EXCEPT !.oracle = OracleKind(answer)]
    ELSE [tk EXCEPT !.pc = "end", !.oracle = OracleKind(answer)]

\* lines 640-649: the tick after the oracle's answer
AfterOracle(tk, answer) ==
    IF Proceeds(answer)
    THEN EnterAnalysis([tk EXCEPT !.oracle = OracleKind(answer)], tk.img)
    ELSE [tk EXCEPT !.pc = "end", !.oracle = OracleKind(answer)]

\* lines 638-650: checkForNewQuestion has answered, or has thrown (its client
\* is constructed at line 249, outside its try)
OracleDone(t) ==
    /\ task[t].pc = "checkForNewQuestion"
    /\ \/ \E answer \in env.oracle :
            LET tk == AfterOracle(task[t], answer)
            IN  /\ lastScreenshotRef' =
                       IF Proceeds(answer) THEN task[t].img ELSE lastScreenshotRef
                /\ lastOcrTextRef' =
                       IF Proceeds(answer) /\ ~task[t].cfg.triggerHybrid
                       THEN Trim(ScreenText[task[t].img])
                       ELSE lastOcrTextRef
                /\ task' = [task EXCEPT ![t] = Settle(t, tk, isAutomationRunningRef)]
                /\ processingRef' = BusyAfter(tk, processingRef)
                /\ automationTimeoutRef' =
                       TimeoutAfter(t, tk, isAutomationRunningRef, automationTimeoutRef)
       \/ /\ "checkForNewQuestion" \in env.throws
          /\ task' = [task EXCEPT ![t] = Unwound(task[t])]
          /\ UNCHANGED <<lastScreenshotRef, lastOcrTextRef, processingRef,
                         automationTimeoutRef>>
    /\ UNCHANGED <<reactVars, isAutomationRunningRef, ocrStabilityCounterRef,
                   worldVars, tickLog, ticks, events, scans>>

\* lines 530-540: the local OCR scan of performAnalysis is over, the
\* analyzer is called
AnalysisOcrDone(t) ==
    /\ task[t].pc = "paDetectText"
    /\ task' = [task EXCEPT ![t].pc = "analyzeScreenFrame", ![t].calls = @ + 1]
    /\ UNCHANGED <<reactVars, refVars, worldVars, tickLog, ticks, events, scans>>

\* one call of the analyzer as the backend serves it
BackendCall(supportError, replies) == [supportError |-> supportError, replies |-> replies]

\* lines 542-581: analyzeScreenFrame has returned, or has thrown into the
\* catch of line 575
AnalyzeDone(t) ==
    /\ task[t].pc = "analyzeScreenFrame"
    /\ \/ \E call \in env.backend :
            LET result == analyzeScreenFrame(task[t].cfg.modelName, call.supportError,
                                             call.replies)
                quota == result.error # <<>> /\ IsQuotaError(result.error)
                tk == AutoSelect([task[t] EXCEPT !.served = IF env.history THEN call
                                                            ELSE NoCall], result)
            IN  /\ settings' = IF quota THEN [settings EXCEPT !.automationEnabled = FALSE]
                               ELSE settings
                /\ effectPending' = (effectPending \/ quota)
                /\ lastScreenshotRef' =
                       IF result.error = <<>> /\ result.hasQuestion THEN task[t].img
                       ELSE lastScreenshotRef
                /\ lastResult' = <<result>>
                /\ task' = [task EXCEPT ![t] = Settle(t, tk, isAutomationRunningRef)]
                /\ processingRef' = BusyAfter(tk, processingRef)
                /\ automationTimeoutRef' =
                       TimeoutAfter(t, tk, isAutomationRunningRef, automationTimeoutRef)
       \/ /\ "analyzeScreenFrame" \in env.throws
          /\ LET tk == Caught(task[t])
             IN  /\ task' = [task EXCEPT ![t] = Settle(t, tk, isAutomationRunningRef)]
                 /\ processingRef' = BusyAfter(tk, processingRef)
                 /\ automationTimeoutRef' =
                        TimeoutAfter(t, tk, isAutomationRunningRef, automationTimeoutRef)
          /\ UNCHANGED <<settings, effectPending, lastScreenshotRef, lastResult>>
    /\ UNCHANGED <<appState, stream, lastOcrTextRef, isAutomationRunningRef,
                   ocrStabilityCounterRef, worldVars, tickLog, ticks, events, scans>>

\* lines 477-490: the settle delay is over; a frame is captured and, when
\* there is one, verifySelection is called
SettleDone(t) ==
    /\ task[t].pc = "settle"
    /\ \E verifyImg \in CaptureResults :
         LET tk == IF verifyImg = Thrown THEN Caught(task[t])
                   ELSE IF verifyImg # NoFrame
                   THEN [task[t] EXCEPT !.pc = "verifySelection", !.verifications = @ + 1]
                   ELSE LoopOrExit([task[t] EXCEPT !.missed = @ + 1])
         IN  /\ task' = [task EXCEPT ![t] = Settle(t, tk, isAutomationRunningRef)]
             /\ processingRef' = BusyAfter(tk, processingRef)
             /\ automationTimeoutRef' =
                    TimeoutAfter(t, tk, isAutomationRunningRef, automationTimeoutRef)
    /\ UNCHANGED <<reactVars, lastOcrTextRef, lastScreenshotRef, isAutomationRunningRef,
                   ocrStabilityCounterRef, worldVars, tickLog, ticks, events, scans>>

\* the activity after verifySelection's answer, or after it threw into the
\* catch of line 575
AfterVerify(tk, isSelected, thrown) ==
    IF thrown THEN Caught(tk)
    ELSE LoopOrExit([tk EXCEPT !.verified = isSelected,
                               !.verifiedAt = IF isSelected /\ @ = 0 THEN tk.attempts
                                              ELSE @])

\* lines 483-490: verifySelection has answered
VerifyDone(t) ==
    /\ task[t].pc = "verifySelection"
    /\ \E isSelected \in env.verify, thrown \in {FALSE} \cup {"verifySelection" \in env.throws} :
         LET tk == AfterVerify(task[t], isSelected, thrown)
         IN  /\ task' = [task EXCEPT ![t] = Settle(t, tk, isAutomationRunningRef)]
             /\ processingRef' = BusyAfter(tk, processingRef)
             /\ automationTimeoutRef' =
                    TimeoutAfter(t, tk, isAutomationRunningRef, automationTimeoutRef)
    /\ UNCHANGED <<reactVars, lastOcrTextRef, lastScreenshotRef, isAutomationRunningRef,
                   ocrStabilityCounterRef, worldVars, tickLog, ticks, events, scans>>

\* ------------------------------------------------------------------------
\* App: the start/stop effect and the user's events
\* ------------------------------------------------------------------------
\* clearTimeout(automationTimeoutRef.current): the timer the ref names, if it
\* is still pending, never fires
ClearTimeout(tasks, ref) ==
    IF ref # 0 /\ tasks[ref].pc = "armed" THEN [tasks EXCEPT ![ref].pc = "idle"] ELSE tasks

FreeLoopIds(tasks) == {t \in LoopIds : tasks[t].pc = "idle"}

FirstFree(tasks) == CHOOSE t \in FreeLoopIds(tasks) : \A u \in FreeLoopIds(tasks) : t <= u

\* lines 660-678: the dependencies changed, so the cleanup of the previous
\* run (lines 674-677) and then the effect body run.  A run that starts the
\* loop calls runAutomationLoop, which runs to its first await.
RunEffect ==
    /\ effectPending
    /\ effectPending' = FALSE
    /\ LET cleared == ClearTimeout(task, automationTimeoutRef)
       IN  IF appState = "STREAMING" /\ settings.automationEnabled
           THEN /\ FreeLoopIds(cleared) # {}
                /\ ticks < env.maxTicks
                /\ isAutomationRunningRef' = TRUE
                /\ ticks' = ticks + 1
                /\ \E img \in CaptureResults :
                     LET t == FirstFree(cleared)
                         fresh == [IdleTask EXCEPT !.cfg = settings, !.cstream = stream]
                         tk == TickPrefix(fresh, TRUE, processingRef, img)
                     IN  /\ task' = [cleared EXCEPT ![t] = Settle(t, tk, TRUE)]
                         /\ processingRef' = BusyAfter(tk, processingRef)
                         /\ automationTimeoutRef' =
                                TimeoutAfter(t, tk, TRUE, automationTimeoutRef)
           ELSE /\ isAutomationRunningRef' = FALSE
                /\ task' = cleared
                /\ UNCHANGED <<processingRef, automationTimeoutRef, ticks>>
    /\ UNCHANGED <<appState, stream, settings, lastResult, lastOcrTextRef,
                   lastScreenshotRef, ocrStabilityCounterRef, worldVars, tickLog,
                   events, scans>>

\* lines 680-693, when the user grants the display capture
StartCapture ==
    /\ ~stream
    /\ events < env.maxEvents
    /\ stream' = TRUE
    /\ appState' = "STREAMING"
    /\ effectPending' = TRUE
    /\ events' = events + 1
    /\ UNCHANGED <<settings, lastResult, refVars, task, worldVars, tickLog, ticks, scans>>

\* lines 695-702
StopCapture ==
    /\ stream
    /\ events < env.maxEvents
    /\ stream' = FALSE
    /\ appState' = "IDLE"
    /\ lastResult' = NoResult
    /\ settings' = [settings EXCEPT !.automationEnabled = FALSE]
    /\ effectPending' = TRUE
    /\ events' = events + 1
    /\ UNCHANGED <<refVars, task, worldVars, tickLog, ticks, scans>>

\* SettingsPanel handleToggle and lines 704-714
ToggleSetting(key) ==
    /\ events < env.maxEvents
    /\ settings' = [settings EXCEPT ![key] = ~@]
    /\ effectPending' = TRUE
    /\ events' = events + 1
    /\ UNCHANGED <<appState, stream, lastResult, refVars, task, worldVars, tickLog,
                   ticks, scans>>

\* line 869: the Manual Scan button
ManualScan(t) ==
    /\ stream
    /\ task[t].pc = "idle"
    /\ scans < env.maxScans
    /\ \E img \in CaptureResults :
         /\ img \notin {NoFrame, Thrown}
         /\ LET fresh == [IdleTask EXCEPT !.cfg = settings, !.cstream = stream]
                tk == EnterAnalysis(fresh, img)
            IN  /\ task' = [task EXCEPT ![t] = Settle(t, tk, isAutomationRunningRef)]
                /\ processingRef' = BusyAfter(tk, processingRef)
    /\ scans' = scans + 1
    /\ UNCHANGED <<reactVars, lastOcrTextRef, lastScreenshotRef, isAutomationRunningRef,
                   ocrStabilityCounterRef, automationTimeoutRef, worldVars, tickLog,
                   ticks, events>>

\* the captured display shows something else
ScreenChange ==
    /\ \E other \in env.screens \ {screen} : screen' = other
    /\ UNCHANGED <<reactVars, refVars, task, env, tickLog, ticks, events, scans>>

\* ------------------------------------------------------------------------
\* What the collaborators answer
\* ------------------------------------------------------------------------
MsgQuota429 == <<"4", "2", "9", " ", "R", "E", "S", "O", "U", "R", "C", "E", "_",
                 "E", "X", "H", "A", "U", "S", "T", "E", "D">>

MsgQuotaWord == <<"Q", "u", "o", "t", "a", " ", "e", "x", "c", "e", "e", "d", "e", "d">>

MsgOverload == <<"5", "0", "3", " ", "U", "N", "A", "V", "A", "I", "L", "A", "B", "L", "E">>

ThrowQuota == Reply("throw", MsgQuota429, NoBody)

ThrowQuotaWord == Reply("throw", MsgQuotaWord, NoBody)

ThrowOverload == Reply("throw", MsgOverload, NoBody)

EmptyReply == Reply("empty", <<>>, NoBody)

BadReply == Reply("bad", <<>>, NoBody)

JsonReply(body) == Reply("json", <<>>, body)

Always(reply) == BackendCall(FALSE, <<reply, reply, reply>>)

BoxA == <<10, 20, 30, 40>>

BoxNext == <<80, 60, 90, 80>>

\* a question whose second option is the correct one, with the given confidence
BodyAnswer(confidenceScore, boundingBox, nextButton) ==
    Body(TRUE, <<Question(<<Option("three", FALSE, 20, NoBox),
                            Option("four", TRUE, confidenceScore, boundingBox)>>)>>,
         nextButton)

BodyNoQuestion == Body(FALSE, <<>>, NoBox)

BodyNoCorrect ==
    Body(TRUE, <<Question(<<Option("three", FALSE, 90, NoBox),
                            Option("four", FALSE, 80, NoBox)>>)>>, NoBox)

AllOracleAnswers ==
    {OracleAnswer(TRUE, FALSE), OracleAnswer(FALSE, FALSE), OracleAnswer(FALSE, TRUE)}

\* The environment of a run: what the display shows, what the collaborators
\* answer, which settings the user toggles, and how many ticks, user events
\* and manual scans the run has; throws names the calls that can throw, and
\* history tells whether the activities keep the oracle's last answer
Env(screens, captureFails, ocrFails, oracle, backend, verify, keys, budget) ==
    [screens |-> screens, captureFails |-> captureFails, ocrFails |-> ocrFails,
     oracle |-> oracle, backend |-> backend, verify |-> verify, keys |-> keys,
     maxTicks |-> budget[1], maxEvents |-> budget[2], maxScans |-> budget[3],
     throws |-> {}, history |-> FALSE]

\* ------------------------------------------------------------------------
\* The application from its construction, under every interleaving of the
\* user's events, the timers and the collaborators' answers
\* ------------------------------------------------------------------------
\* bounds of Spec: tick bodies started, user events, manual scans
SchedTicks == 3

SchedEvents == 3

SchedScans == 1

SchedEnv ==
    Env({1}, FALSE, FALSE, AllOracleAnswers,
        {Always(ThrowQuota), Always(JsonReply(BodyAnswer(90, NoBox, NoBox)))},
        {TRUE},
        {"automationEnabled", "triggerHybrid", "autoSelect"},
        <<SchedTicks, SchedEvents, SchedScans>>)

InitCommon ==
    /\ lastResult = NoResult
    /\ processingRef = FALSE
    /\ lastOcrTextRef = <<>>
    /\ lastScreenshotRef = NoFrame
    /\ isAutomationRunningRef = FALSE
    /\ ocrStabilityCounterRef = 0
    /\ automationTimeoutRef = 0
    /\ task = [t \in TaskIds |-> IdleTask]
    /\ tickLog = <<>>
    /\ ticks = 0
    /\ events = 0
    /\ scans = 0

Init ==
    /\ InitCommon
    /\ appState = "IDLE"
    /\ stream = FALSE
    /\ settings = [DEFAULT_SETTINGS EXCEPT !.apiKey = TRUE]
    /\ effectPending = FALSE
    /\ env = SchedEnv
    /\ screen = 1

UserEvent ==
    \/ StartCapture
    \/ StopCapture
    \/ \E key \in env.keys : ToggleSetting(key)
    \/ \E t \in ManualIds : ManualScan(t)

LoopStep == \E t \in LoopIds : TimerFires(t) \/ OcrDone(t) \/ OracleDone(t)

AnalysisStep ==
    \E t \in TaskIds : AnalysisOcrDone(t) \/ AnalyzeDone(t) \/ SettleDone(t) \/ VerifyDone(t)

Next == UserEvent \/ RunEffect \/ LoopStep \/ AnalysisStep

Spec == Init /\ [][Next]_vars

\* ------------------------------------------------------------------------
\* The hybrid trigger alone: one scheduling chain in hybrid mode, started by
\* the effect once capture is on and the master switch is enabled, on a
\* display that changes between ticks and an OCR engine that can fail
\* ------------------------------------------------------------------------
\* bound of SpecHybrid: tick bodies started
HybridTicks == 6

HybridEnv ==
    Env({1, 2, 3, 4, 5}, TRUE, TRUE, AllOracleAnswers,
        {Always(JsonReply(BodyNoQuestion)), Always(JsonReply(BodyAnswer(90, NoBox, NoBox)))},
        {TRUE}, {}, <<HybridTicks, 0, 0>>)

InitHybrid ==
    /\ InitCommon
    /\ appState = "STREAMING"
    /\ stream = TRUE
    /\ \E sensitivity \in {10, 50, 100} :
         settings = [DEFAULT_SETTINGS EXCEPT !.apiKey = TRUE, !.automationEnabled = TRUE,
                                             !.smartScanSensitivity = sensitivity]
    /\ effectPending = TRUE
    /\ env = HybridEnv
    /\ screen \in HybridEnv.screens

NextHybrid ==
    \/ RunEffect
    \/ ScreenChange
    \/ \E t \in LoopIds : TimerFires(t) \/ OcrDone(t) \/ OracleDone(t)
    \/ \E t \in LoopIds : AnalysisOcrDone(t) \/ AnalyzeDone(t)

SpecHybrid == InitHybrid /\ [][NextHybrid]_vars

\* ------------------------------------------------------------------------
\* The comparison of texts in the hybrid trigger: SpecHybrid on a display that
\* also shows a noisy read, with the texts each tick compared kept in the log
\* ------------------------------------------------------------------------
\* bound of SpecCompare: tick bodies started
CompareTicks == 4

CompareEnv ==
    [Env({1, 2, 3, 6}, FALSE, TRUE, AllOracleAnswers,
         {Always(JsonReply(BodyAnswer(90, NoBox, NoBox)))},
         {TRUE}, {}, <<CompareTicks, 0, 0>>)
     EXCEPT !.history = TRUE]

InitCompare ==
    /\ InitCommon
    /\ appState = "STREAMING"
    /\ stream = TRUE
    /\ \E sensitivity \in {50} :
         settings = [DEFAULT_SETTINGS EXCEPT !.apiKey = TRUE, !.automationEnabled = TRUE,
                                             !.smartScanSensitivity = sensitivity]
    /\ effectPending = TRUE
    /\ env = CompareEnv
    /\ screen \in CompareEnv.screens

SpecCompare == InitCompare /\ [][NextHybrid]_vars

\* ------------------------------------------------------------------------
\* The threshold of the hybrid trigger: the hybrid chain on a display that
\* does not change, for every value of the sensitivity setting
\* ------------------------------------------------------------------------
\* types.ts line 40: smartScanSensitivity is 1-100
Sensitivities == 1..100

\* bound of SpecThreshold: tick bodies started
ThresholdTicks == 3

ThresholdEnv ==
    Env({1}, FALSE, FALSE, {OracleAnswer(FALSE, FALSE)},
        {Always(JsonReply(BodyNoQuestion))}, {TRUE}, {}, <<ThresholdTicks, 0, 0>>)

InitThreshold ==
    /\ InitCommon
    /\ appState = "STREAMING"
    /\ stream = TRUE
    /\ \E sensitivity \in Sensitivities :
         settings = [DEFAULT_SETTINGS EXCEPT !.apiKey = TRUE, !.automationEnabled = TRUE,
                                             !.smartScanSensitivity = sensitivity]
    /\ effectPending = TRUE
    /\ env = ThresholdEnv
    /\ screen = 1

NextThreshold ==
    \/ RunEffect
    \/ \E t \in LoopIds : TimerFires(t) \/ OcrDone(t) \/ OracleDone(t)

SpecThreshold == InitThreshold /\ [][NextThreshold]_vars

\* ------------------------------------------------------------------------
\* The analyzer alone: manual scans of a captured display, for every way the
\* backend can serve the three attempts of one analyzeScreenFrame call, with
\* the requested model the fallback model or another one
\* ------------------------------------------------------------------------
\* bound of SpecAnalyze: manual scans started
AnalyzeScans == 1

AttemptReplies ==
    {ThrowOverload, ThrowQuota, EmptyReply, BadReply,
     JsonReply(BodyAnswer(90, BoxA, NoBox)), JsonReply(BodyNoQuestion)}

AnalyzeEnv ==
    [Env({1}, FALSE, FALSE, AllOracleAnswers,
         {BackendCall(FALSE, <<r1, r2, r3>>) :
              r1 \in AttemptReplies, r2 \in AttemptReplies, r3 \in AttemptReplies}
             \cup {BackendCall(TRUE, <<>>)},
         {TRUE}, {}, <<0, 0, AnalyzeScans>>)
     EXCEPT !.history = TRUE]

InitAnalyze ==
    /\ InitCommon
    /\ appState = "STREAMING"
    /\ stream = TRUE
    /\ \E autoSelect \in BOOLEAN, modelName \in {FALLBACK_MODEL, PRO_MODEL} :
         settings = [DEFAULT_SETTINGS EXCEPT !.apiKey = TRUE, !.autoSelect = autoSelect,
                                             !.modelName = modelName]
    /\ effectPending = FALSE
    /\ env = AnalyzeEnv
    /\ screen = 1

NextAnalyze ==
    \E t \in ManualIds :
        ManualScan(t) \/ AnalysisOcrDone(t) \/ AnalyzeDone(t) \/ SettleDone(t) \/ VerifyDone(t)

SpecAnalyze == InitAnalyze /\ [][NextAnalyze]_vars

\* ------------------------------------------------------------------------
\* The selection protocol alone: manual scans of a captured display with the
\* master switch off, for every setting of the auto-select gate and every
\* answer of the analyzer and of the verification
\* ------------------------------------------------------------------------
\* bound of SpecSelect: manual scans started
SelectScans == 1

BodyTwoQuestions ==
    Body(TRUE, <<Question(<<Option("three", FALSE, 90, NoBox)>>),
                 Question(<<Option("Paris", TRUE, 95, NoBox)>>)>>, NoBox)

BodyTwoCorrect ==
    Body(TRUE, <<Question(<<Option("three", TRUE, 50, NoBox),
                            Option("four", TRUE, 90, BoxA)>>)>>, NoBox)

SelectBodies ==
    {BodyAnswer(50, NoBox, NoBox), BodyAnswer(70, BoxA, NoBox), BodyAnswer(90, NoBox, BoxNext),
     BodyAnswer(90, BoxA, NoBox), BodyNoCorrect, BodyNoQuestion, BodyTwoQuestions,
     BodyTwoCorrect, Body(TRUE, <<>>, NoBox)}

SelectEnv ==
    Env({1}, TRUE, FALSE, AllOracleAnswers,
        {Always(JsonReply(body)) : body \in SelectBodies}
            \cup {Always(ThrowQuota), Always(EmptyReply),
                  BackendCall(FALSE, <<ThrowOverload, BadReply, JsonReply(BodyNoQuestion)>>)},
        {TRUE, FALSE}, {}, <<0, 0, SelectScans>>)

InitSelect ==
    /\ InitCommon
    /\ appState = "STREAMING"
    /\ stream = TRUE
    /\ \E autoSelect \in BOOLEAN, autoNext \in BOOLEAN, confidenceThreshold \in {70, 90} :
         settings = [DEFAULT_SETTINGS EXCEPT !.apiKey = TRUE, !.autoSelect = autoSelect,
                                             !.autoNext = autoNext,
                                             !.confidenceThreshold = confidenceThreshold]
    /\ effectPending = FALSE
    /\ env = SelectEnv
    /\ screen = 1

NextSelect ==
    \E t \in ManualIds :
        ManualScan(t) \/ AnalysisOcrDone(t) \/ AnalyzeDone(t) \/ SettleDone(t) \/ VerifyDone(t)

SpecSelect == InitSelect /\ [][NextSelect]_vars

\* ------------------------------------------------------------------------
\* The loop under failing collaborators: capture on, master switch enabled,
\* remote-checked or timed mode; the oracle and the analyzer return errors,
\* and every call that is not wrapped by the collaborator itself can throw.
\* Timers fire and pending calls settle, which is the fairness stated.
\* ------------------------------------------------------------------------
\* bound of SpecFault: tick bodies started
FaultTicks == 3

FaultEnv ==
    [Env({1}, TRUE, FALSE, AllOracleAnswers,
         {Always(ThrowOverload), Always(ThrowQuota),
          Always(JsonReply(BodyAnswer(90, NoBox, NoBox)))},
         {TRUE, FALSE}, {}, <<FaultTicks, 1, 0>>)
     EXCEPT !.throws = {"captureFrame", "checkForNewQuestion", "analyzeScreenFrame",
                        "verifySelection"},
            !.history = TRUE]

InitFault ==
    /\ InitCommon
    /\ appState = "STREAMING"
    /\ stream = TRUE
    /\ \E triggerTime \in BOOLEAN, autoSelect \in BOOLEAN :
         settings = [DEFAULT_SETTINGS EXCEPT !.apiKey = TRUE, !.automationEnabled = TRUE,
                                             !.triggerHybrid = FALSE,
                                             !.triggerTime = triggerTime,
                                             !.autoSelect = autoSelect]
    /\ effectPending = TRUE
    /\ env = FaultEnv
    /\ screen = 1

NextFault ==
    \/ RunEffect
    \/ StopCapture
    \/ \E t \in LoopIds : TimerFires(t) \/ OracleDone(t)
    \/ \E t \in LoopIds : AnalysisOcrDone(t) \/ AnalyzeDone(t) \/ SettleDone(t) \/ VerifyDone(t)

\* the effect runs after a render; a timer that stays armed fires; a pending
\* call settles
FairFault ==
    /\ WF_vars(RunEffect)
    /\ \A t \in LoopIds :
         /\ WF_vars(TimerFires(t))
         /\ WF_vars(OracleDone(t))
         /\ WF_vars(AnalysisOcrDone(t))
         /\ WF_vars(AnalyzeDone(t))
         /\ WF_vars(SettleDone(t))
         /\ WF_vars(VerifyDone(t))

SpecFault == InitFault /\ [][NextFault]_vars /\ FairFault

\* ------------------------------------------------------------------------
\* Properties
\* ------------------------------------------------------------------------
RemoteCallsInFlight == {t \in TaskIds : task[t].pc \in RemotePcs}

\* C1: at every moment at most one remote collaborator call (oracle check,
\* analysis, or verification of the selection protocol) is in flight,
\* whatever the interleaving of ticks, manual scans and settings events.
AtMostOneRemoteCall == Cardinality(RemoteCallsInFlight) <= 1

LiveChains == {t \in LoopIds : task[t].pc # "idle"}

\* C2: there is a single scheduling chain: never are two runAutomationLoop
\* ticks executing or pending together, also across disabling, re-enabling
\* and settings changes made while a tick awaits a collaborator.
SingleSchedulingChain == Cardinality(LiveChains) <= 1

\* a remote call of task t completes in this step
RemoteCallCompletes(t) == task[t].pc \in RemotePcs /\ task'[t].pc # task[t].pc

\* C3: once isRunning is false, the completion of a remote call the loop
\* started earlier applies no side effect: lastResult, lastAnalyzedFrame and
\* lastObservedText keep their values and no action sequence is dispatched.
DiscardedAfterStop ==
    [][\A t \in LoopIds :
          (~isAutomationRunningRef /\ RemoteCallCompletes(t))
          => /\ lastResult' = lastResult
             /\ lastScreenshotRef' = lastScreenshotRef
             /\ lastOcrTextRef' = lastOcrTextRef
             /\ task'[t].sent = task[t].sent]_vars

\* C4: when the stream stops or the master switch goes off, isBusy and the
\* stability counter are cleared; and a loop that is (re)started begins with
\* lastObservedText empty, lastAnalyzedFrame absent and the counter at 0.
ClearedOnStopAndStart ==
    [][/\ (isAutomationRunningRef /\ ~isAutomationRunningRef')
          => (~processingRef' /\ ocrStabilityCounterRef' = 0)
       /\ (~isAutomationRunningRef /\ isAutomationRunningRef')
          => /\ lastOcrTextRef' = <<>>
             /\ lastScreenshotRef' = NoFrame
             /\ ocrStabilityCounterRef' = 0]_vars


\* the hybrid ticks just before tick i that were raw candidates and did not
\* escalate, counted back to the last tick that left the counter at 0
RECURSIVE CandidateRun(_)
CandidateRun(i) ==
    IF i = 1 THEN 0
    ELSE IF tickLog[i - 1].rawChange /\ ~tickLog[i - 1].escalated
    THEN 1 + CandidateRun(i - 1)
    ELSE 0

\* C5: in hybrid mode a tick escalates to the ChangeOracle if and only if it
\* is the third consecutive raw-candidate tick since the counter was last 0;
\* the escalating tick leaves the counter at 0, and a non-candidate tick
\* resets it to 0, so two candidates followed by a non-candidate never
\* escalate.
EscalatesOnThirdCandidate ==
    \A i \in 1..Len(tickLog) :
        /\ tickLog[i].escalated <=> (tickLog[i].rawChange /\ CandidateRun(i) = 2)
        /\ tickLog[i].escalated => tickLog[i].after = 0
        /\ ~tickLog[i].rawChange => tickLog[i].after = 0

\* C5 witness: a run of three candidates has escalated, and elsewhere two
\* candidates were followed by a non-candidate
EscalatedAndDebounced ==
    /\ \E i \in 1..Len(tickLog) : tickLog[i].escalated
    /\ \E i \in 1..(Len(tickLog) - 2) :
         /\ tickLog[i].rawChange /\ CandidateRun(i) = 0
         /\ tickLog[i + 1].rawChange
         /\ ~tickLog[i + 2].rawChange

\* the analysis of task t has handled the result now held as lastResult
Handled(t) ==
    /\ lastResult # NoResult
    /\ task[t].calls = 1
    /\ task[t].pc \notin {"paDetectText", "analyzeScreenFrame"}

FirstQuestionOptions == lastResult[1].questions[1].options

HasFirstQuestion == lastResult[1].hasQuestion /\ Len(lastResult[1].questions) > 0

CorrectOptions == {i \in 1..Len(FirstQuestionOptions) : FirstQuestionOptions[i].isCorrect}

\* the option the protocol selects: the first one marked correct
ChosenOption ==
    FirstQuestionOptions[CHOOSE i \in CorrectOptions : \A j \in CorrectOptions : i <= j]

SelectDispatches(t) == {k \in 1..Len(task[t].sent) : ~IsNextSequence(task[t].sent[k])}

NextDispatches(t) == {k \in 1..Len(task[t].sent) : IsNextSequence(task[t].sent[k])}

NoAnswerNoAction ==
    \A t \in TaskIds :
        (/\ Handled(t) /\ task[t].cfg.autoSelect /\ HasFirstQuestion
         /\ CorrectOptions = {})
        => /\ task[t].report = "noClearAnswer"
           /\ task[t].sent = <<>>
           /\ task[t].verifications = 0

\* C9 witness: the first of two questions has no correct option, the second has
NoAnswerReported ==
    \E t \in TaskIds :
        /\ Handled(t) /\ HasFirstQuestion /\ CorrectOptions = {}
        /\ Len(lastResult[1].questions) = 2
        /\ task[t].report = "noClearAnswer"

QuotaSignals == {MsgQuota429, MsgQuotaWord}

\* the analyzer call of task t returns in this step
AnalyzerReturns(t) ==
    task[t].pc = "analyzeScreenFrame" /\ task'[t].pc # "analyzeScreenFrame"

\* C10: a result carrying an error is terminal for its call: one
\* performAnalysis calls the analyzer once; a quota-exhaustion error sets the
\* master switch to disabled in the step that handles it; and once the
\* start/stop effect has run with the switch off the loop is not running and
\* arms no further tick.
ErrorIsTerminal ==
    /\ [](\A t \in TaskIds : task[t].calls <= 1)
    /\ []((~settings.automationEnabled /\ ~effectPending) => ~isAutomationRunningRef)
    /\ [][\A t \in TaskIds :
             (AnalyzerReturns(t) /\ lastResult'[1].error \in QuotaSignals)
             => /\ ~settings'.automationEnabled
                /\ task'[t].calls = 1
                /\ task'[t].sent = <<>>]_vars
    /\ [][\A t \in LoopIds :
             ~isAutomationRunningRef' => ~(task[t].pc # "armed" /\ task'[t].pc = "armed")]_vars

\* C10 witness: a tick's analysis ended in a quota error and the loop stopped
QuotaStoppedLoop ==
    \E t \in LoopIds :
        /\ lastResult # NoResult
        /\ lastResult[1].error \in QuotaSignals
        /\ task[t].calls = 1
        /\ scans = 0
        /\ ~settings.automationEnabled
        /\ ~effectPending
        /\ ~isAutomationRunningRef
        /\ LiveChains = {}

InTick(t) == task[t].pc \notin {"idle", "armed"}

Faulted == \E t \in LoopIds : task[t].fault

\* C11: while isRunning stays true, every tick is eventually followed by
\* another tick (up to the run's budget of ticks), whether or not the oracle
\* or the analyzer returned an error result in it; only a stop of the loop or
\* an exception that unwound the tick excuses it.
TickFollowedByTick ==
    \A n \in 1..(FaultTicks - 1) :
        (ticks = n) ~> (ticks > n \/ ~isAutomationRunningRef \/ Faulted)

\* C11 witness: after a tick whose analysis returned an error result and a
\* tick whose oracle returned an error, a third tick is under way
TickAfterErrors ==
    \E t \in LoopIds :
        /\ isAutomationRunningRef
        /\ ticks = 3
        /\ task[t].pc = "checkForNewQuestion"
        /\ task[t].oracle = "error"
        /\ lastResult # NoResult
        /\ lastResult[1].error = MsgOverload

\* C12: an exception thrown by a collaborator during a tick does not unwind
\* past the tick: an invocation of the loop ends (other than by the effect's
\* cancellation) without a successor armed only when isRunning is false, and
\* when performAnalysis is left isBusy is clear.
ThrowStaysInTick ==
    [][\A t \in LoopIds :
          /\ (task[t].pc # "idle" /\ task'[t].pc = "idle" /\ effectPending' = effectPending)
             => ~isAutomationRunningRef'
          /\ (task[t].pc \in AnalysisPcs /\ task'[t].pc \notin AnalysisPcs)
             => ~processingRef']_vars

\* C13: lastObservedText, lastAnalyzedFrame, stabilityCounter and isBusy are
\* written only by the scheduling loop's own ticks: a step in which no
\* invocation of the loop moves (a manual scan's step in particular) leaves
\* all four unchanged.
OwnedByLoop ==
    [][(\A t \in LoopIds : task'[t] = task[t])
       => UNCHANGED <<lastOcrTextRef, lastScreenshotRef, ocrStabilityCounterRef,
                      processingRef>>]_vars

\* positions at which a call the loop has begun is pending
CallPcs == {"detectText", "checkForNewQuestion", "paDetectText", "analyzeScreenFrame"}

\* the start/stop effect runs in this step and leaves the loop stopped
EffectStops == effectPending /\ ~effectPending' /\ ~isAutomationRunningRef'

\* C14: the scheduler is inert unless the stream is active and the master
\* switch is enabled: isRunning is true only then; while isRunning is false
\* the loop begins no OCR, oracle or analyzer call; and once the effect has
\* turned the loop off no scheduled tick is left pending.
InertUnlessEnabled ==
    /\ [](isAutomationRunningRef
          => (effectPending \/ (appState = "STREAMING" /\ settings.automationEnabled)))
    /\ [][\A t \in LoopIds :
             /\ (task'[t].pc # task[t].pc /\ task'[t].pc \in CallPcs)
                => isAutomationRunningRef'
             /\ EffectStops => task'[t].pc # "armed"]_vars

\* lines 611-612 on the texts of a logged tick
MouseCovering(e) == isTextSubset(e.ref, e.text)

FeedbackAdded(e) == isTextSubset(e.text, e.ref)

LowSimilarity(e) ==
    SimilarityBelow(calculateTextSimilarity(e.text, e.ref), Threshold(e.sensitivity))

\* C15: a hybrid tick is a raw candidate change exactly when the reference
\* text is not a subset of the current text, the current text is not a subset
\* of the reference text, their similarity is below the threshold and the
\* current text is longer than 15 characters; so a subset verdict that is true
\* suppresses the change however low the similarity
RawCandidateIffFourTests ==
    \A i \in 1..Len(tickLog) :
        LET e == tickLog[i]
        IN  /\ e.rawChange <=> (/\ ~MouseCovering(e)
                                /\ ~FeedbackAdded(e)
                                /\ LowSimilarity(e)
                                /\ Len(e.text) > 15)
            /\ (MouseCovering(e) \/ FeedbackAdded(e)) => ~e.rawChange

\* C15 witness: a tick whose text is long enough and far below the threshold
\* in similarity, but is not a candidate because a subset verdict is true
SubsetSuppressedLowSimilarity ==
    \E i \in 1..Len(tickLog) :
        LET e == tickLog[i]
        IN  /\ MouseCovering(e) \/ FeedbackAdded(e)
            /\ LowSimilarity(e)
            /\ Len(e.text) > 15
            /\ e.text # e.ref
            /\ ~e.rawChange

\* C16: isTextSubset answers true whenever the child text is empty, whatever
\* the parent: on a tick that read no text the reference "covers" it, and on
\* a tick compared with the empty reference the reference "is contained"
EmptyChildIsSubset ==
    \A i \in 1..Len(tickLog) :
        LET e == tickLog[i]
        IN  /\ e.text = <<>> => isTextSubset(e.ref, e.text)
            /\ e.ref = <<>> => isTextSubset(e.text, e.ref)

\* the two texts of the end-to-end scenario, as the hybrid tick compares them
ScenarioNew == NormalizeText(TextQuestion)

ScenarioOld == NormalizeText(TextFeedback)

IsScenario(e) == e.text = ScenarioNew /\ e.ref = ScenarioOld

\* C17 as stated: on a tick that reads the question against the reference
\* with the feedback mark, isTextSubset(new, old) is true and the tick is no
\* raw candidate, leaves the stability counter at rest and does not escalate
ScenarioNewContainsOld ==
    \A i \in 1..Len(tickLog) :
        IsScenario(tickLog[i]) =>
            /\ isTextSubset(tickLog[i].text, tickLog[i].ref)
            /\ ~tickLog[i].rawChange
            /\ tickLog[i].after = 0
            /\ ~tickLog[i].escalated

\* C17 amended: on that tick isTextSubset(old, new) is true - the reference
\* contains what was read, the mouse-covering verdict - while
\* isTextSubset(new, old) is false, on the raw texts as on the normalized
\* ones; the tick is no raw candidate, leaves the stability counter at rest
\* and does not escalate
ScenarioOldContainsNew ==
    \A i \in 1..Len(tickLog) :
        IsScenario(tickLog[i]) =>
            /\ isTextSubset(tickLog[i].ref, tickLog[i].text)
            /\ ~isTextSubset(tickLog[i].text, tickLog[i].ref)
            /\ isTextSubset(TextFeedback, TextQuestion)
            /\ ~isTextSubset(TextQuestion, TextFeedback)
            /\ ~tickLog[i].rawChange
            /\ tickLog[i].after = 0
            /\ ~tickLog[i].escalated

\* C17 witness: the reference has become the text with the feedback mark and
\* the next tick has read the question without it
ScenarioObserved ==
    /\ Len(tickLog) = 4
    /\ tickLog[3].escalated
    /\ IsScenario(tickLog[4])
    /\ lastOcrTextRef = ScenarioOld

\* equality of two similarities n1/d1 and n2/d2
SameSimilarity(sim1, sim2) == sim1[1] * sim2[2] = sim2[1] * sim1[2]

\* C18: the similarity of two texts does not depend on their order, also when
\* one of them or both are empty: on every tick the similarity of what was
\* read to the reference is that of the reference to what was read
SimilaritySymmetric ==
    \A i \in 1..Len(tickLog) :
        SameSimilarity(calculateTextSimilarity(tickLog[i].text, tickLog[i].ref),
                       calculateTextSimilarity(tickLog[i].ref, tickLog[i].text))

\* C18 witness: one tick compared a text with the empty reference, another
\* compared two different texts that share some words but not all
ComparedEmptyAndOverlapping ==
    /\ \E i \in 1..Len(tickLog) : tickLog[i].ref = <<>> /\ tickLog[i].text # <<>>
    /\ \E i \in 1..Len(tickLog) :
         LET sim == calculateTextSimilarity(tickLog[i].text, tickLog[i].ref)
         IN  /\ WordSet(tickLog[i].text) # WordSet(tickLog[i].ref)
             /\ Cardinality(WordSet(tickLog[i].text)) # Cardinality(WordSet(tickLog[i].ref))
             /\ 0 < sim[1] /\ sim[1] < sim[2]

\* C19: the threshold a hybrid tick applies is 0.2 + 0.6 * sensitivity / 100
\* (here in thousandths) for every sensitivity from 1 to 100: 0.5 at 50, 0.8 at
\* 100, 0.26 at 10, and larger than the threshold of every smaller sensitivity
ThresholdLinearIncreasing ==
    \A i \in 1..Len(tickLog) :
        LET sensitivity == tickLog[i].sensitivity
            threshold == Threshold(sensitivity)
        IN  /\ 100 * threshold = 20000 + 600 * sensitivity
            /\ sensitivity = 50 => threshold = 500
            /\ sensitivity = 100 => threshold = 800
            /\ sensitivity = 10 => threshold = 260
            /\ \A lower \in Sensitivities :
                 lower < sensitivity => Threshold(lower) < threshold

\* C19 witness: at sensitivity 10 a tick has compared a text with the
\* reference and found its similarity below the threshold of 0.26
ThresholdAppliedAtTen ==
    \E i \in 1..Len(tickLog) :
        /\ tickLog[i].sensitivity = 10
        /\ Threshold(tickLog[i].sensitivity) = 260
        /\ tickLog[i].rawChange

\* checkForNewQuestion answers chain t in this step
OracleAnswers(t) ==
    task[t].pc = "checkForNewQuestion" /\ task'[t].pc # "checkForNewQuestion"

\* chain t calls analyzeScreenFrame in this step
AnalyzerCalled(t) ==
    task[t].pc # "analyzeScreenFrame" /\ task'[t].pc = "analyzeScreenFrame"

\* C20: on an escalated tick the analyzer is called only after the oracle has
\* answered isNew = true without error for the tick's frame, and
\* lastScreenshotRef is that frame from the oracle's answer on, before the
\* call; when the oracle answers isNew = false or an error the tick goes to
\* its end without entering the analysis and lastScreenshotRef and lastResult
\* stay as they were
AnalyzerOnlyAfterNew ==
    [][\A t \in LoopIds :
         /\ OracleAnswers(t) =>
               IF task'[t].oracle = "new"
               THEN /\ task'[t].pc \in AnalysisPcs
                    /\ task'[t].img = task[t].img
                    /\ lastScreenshotRef' = task[t].img
               ELSE /\ task'[t].pc \notin AnalysisPcs
                    /\ UNCHANGED <<lastScreenshotRef, lastResult>>
         /\ (task[t].pc \notin AnalysisPcs /\ task'[t].pc \in AnalysisPcs) =>
               OracleAnswers(t) /\ task'[t].oracle = "new"
         /\ AnalyzerCalled(t) =>
               /\ task[t].pc \in AnalysisPcs
               /\ task[t].oracle = "new"
               /\ lastScreenshotRef = task[t].img
               /\ lastScreenshotRef' = task'[t].img]_vars

\* C20 witness: the third candidate tick has escalated, the oracle has
\* answered that the question is new, and the analyzer is at work on the
\* tick's frame, which lastScreenshotRef holds
AnalyzingAfterNew ==
    \E t \in LoopIds :
        /\ task[t].pc = "analyzeScreenFrame"
        /\ task[t].oracle = "new"
        /\ task[t].cfg.triggerHybrid
        /\ tickLog # <<>> /\ tickLog[Len(tickLog)].escalated
        /\ task[t].img # NoFrame
        /\ lastScreenshotRef = task[t].img

\* detectText answers chain t in this step
OcrAnswers(t) ==
    /\ task[t].pc = "detectText" /\ task'[t].pc # "detectText"
    /\ Len(tickLog') = Len(tickLog) + 1

LastTick == tickLog[Len(tickLog)]

\* C21: a failed OCR read is the empty text, and a hybrid tick that read the
\* empty text is no raw candidate: it ends there, with no oracle or analyzer
\* call and no dispatch, and lastOcrTextRef and lastScreenshotRef as they were
EmptyTextNoAction ==
    [][\A t \in LoopIds :
         (OcrAnswers(t) /\ LastTick'.text = <<>>) =>
             /\ ~LastTick'.rawChange
             /\ ~LastTick'.escalated
             /\ task'[t].pc \in {"armed", "idle"}
             /\ task'[t].sent = task[t].sent
             /\ task'[t].calls = task[t].calls
             /\ UNCHANGED <<lastOcrTextRef, lastScreenshotRef>>]_vars

\* C21 witness: after a text has become the reference, a tick has captured a
\* frame of a screen that shows text, the OCR read of it has failed, and the
\* tick is over with the reference still in place
EmptyReadAfterReference ==
    \E t \in LoopIds :
        /\ tickLog # <<>>
        /\ LastTick.text = <<>>
        /\ LastTick.ref # <<>>
        /\ ~LastTick.rawChange
        /\ lastOcrTextRef = LastTick.ref
        /\ task[t].pc = "armed"
        /\ ticks = Len(tickLog)

\* activity t sends a dispatch or calls verifySelection in this step
ProtocolActs(t) ==
    \/ Len(task'[t].sent) > Len(task[t].sent)
    \/ task'[t].verifications > task[t].verifications

\* C22: the selection protocol acts only while auto-select is enabled and on
\* a result with hasQuestion = true: with auto-select disabled, or for a
\* result with hasQuestion = false, no dispatch is sent and no verification
\* call is made
ProtocolOnlyWhenEnabled ==
    [][\A t \in TaskIds :
         ProtocolActs(t) =>
             /\ settings.autoSelect
             /\ lastResult' # NoResult => lastResult'[1].hasQuestion]_vars

\* lines 194-227: attempt k of a call served with replies fails when the
\* request is rejected, when the reply has no text, or when its text is not
\* JSON on an attempt that parses it (the last attempt, the probe, does not)
AttemptFails(replies, k) ==
    \/ replies[k].kind \in {"throw", "empty"}
    \/ replies[k].kind = "bad" /\ k < maxRetriesAnalyze

AllAttemptsFail(replies) == \A k \in 1..Len(replies) : AttemptFails(replies, k)

\* the remote attempts a call makes: up to the first that does not fail
AttemptsMade(replies) ==
    IF AllAttemptsFail(replies) THEN Len(replies)
    ELSE CHOOSE k \in 1..Len(replies) :
             /\ ~AttemptFails(replies, k)
             /\ \A j \in 1..(k - 1) : AttemptFails(replies, j)

\* the analysis of activity t has returned the result now held as lastResult
\* from a call that reached the backend
Answered(t) ==
    /\ task[t].served # NoCall
    /\ ~task[t].served.supportError
    /\ lastResult # NoResult

\* C23: however the backend fails the attempts of one call (rejection, empty
\* reply, reply that does not parse), the call makes at most 3 attempts and
\* returns a result: with error set and hasQuestion = false when every
\* attempt failed, and otherwise without error and with attempts equal to the
\* number of attempts made
AnalyzeBoundedAndTotal ==
    \A t \in TaskIds :
        Answered(t) =>
            LET replies == task[t].served.replies
                result == lastResult[1]
            IN  /\ AttemptsMade(replies) <= 3
                /\ result.attempts <= 3
                /\ IF AllAttemptsFail(replies)
                   THEN result.error # <<>> /\ ~result.hasQuestion
                   ELSE result.error = <<>> /\ result.attempts = AttemptsMade(replies)

\* C23 witness: a call whose three attempts failed in the three ways has
\* returned an error result
ThreeWaysToFail ==
    \E t \in TaskIds :
        /\ Answered(t)
        /\ task[t].served.replies = <<ThrowOverload, BadReply, EmptyReply>>
        /\ lastResult[1].error = MsgEmpty
        /\ ~lastResult[1].hasQuestion
        /\ task[t].pc = "idle"

\* lines 81 and 230: the model attempt k of a call runs on
RECURSIVE ModelOfAttempt(_, _)
ModelOfAttempt(k, modelName) ==
    IF k = 1 THEN modelName ELSE NextModel(ModelOfAttempt(k - 1, modelName), k - 1)

Sub503 == <<"5", "0", "3">>

\* the overload signal of the backend: a rejection whose message names 503
IsOverload(reply) == reply.kind = "throw" /\ Includes(reply.msg, Sub503)

\* C24: within one call, an attempt that fails with an overload signal, and
\* the second failed attempt, are followed by an attempt on the fallback
\* model, and an attempt on the fallback model is never followed by one on
\* another model; the result names the model of the attempt that answered
FallbackAfterOverload ==
    \A t \in TaskIds :
        Answered(t) =>
            LET replies == task[t].served.replies
                modelName == task[t].cfg.modelName
                made == AttemptsMade(replies)
            IN  /\ \A k \in 1..(made - 1) :
                     /\ (IsOverload(replies[k]) \/ k >= 2)
                            => ModelOfAttempt(k + 1, modelName) = FALLBACK_MODEL
                     /\ ModelOfAttempt(k, modelName) = FALLBACK_MODEL
                            => ModelOfAttempt(k + 1, modelName) = FALLBACK_MODEL
                /\ lastResult[1].error = <<>>
                       => lastResult[1].modelUsed = ModelOfAttempt(made, modelName)

\* the positions of the coordinate clicks in a sequence
CoordinateClicks(sequence) == {i \in 1..Len(sequence) : sequence[i].type = "click"}

\* C25: every selection attempt dispatches one sequence; the sequence ends
\* with a text-match click on the option's text, and it holds a coordinate
\* click exactly when the option has a bounding box: one, before the
\* text-match click, at the centre of the box (x and y doubled are xmin + xmax
\* and ymin + ymax)
SequenceOfEveryAttempt ==
    \A t \in TaskIds :
        /\ Cardinality(SelectDispatches(t)) = task[t].attempts
        /\ \A k \in SelectDispatches(t) :
              LET sequence == task[t].sent[k]
                  box == task[t].option.boundingBox
                  last == sequence[Len(sequence)]
              IN  /\ last.type = "text_click"
                  /\ last.text = task[t].option.text
                  /\ (box # NoBox) <=> (CoordinateClicks(sequence) # {})
                  /\ box = NoBox => Len(sequence) = 1
                  /\ box # NoBox =>
                        /\ Len(sequence) = 2
                        /\ sequence[1].type = "click"
                        /\ sequence[1].x = box[2] + box[4]
                        /\ sequence[1].y = box[1] + box[3]

\* C25 witness: the second attempt on an option with a bounding box has
\* dispatched its sequence, a click at the centre of the box and then the
\* text-match click
BoxedOptionSentTwice ==
    \E t \in TaskIds :
        /\ task[t].attempts = 2
        /\ task[t].pc = "settle"
        /\ task[t].option.boundingBox = BoxA
        /\ Len(task[t].sent) = 2
        /\ task[t].sent[2] = <<Action("click", 60, 40, ""),
                               Action("text_click", 0, 0, task[t].option.text)>>

\* the first three ticks of the session have read the same text, longer
\* than 15 characters
SameLongTextThrice ==
    /\ Len(tickLog) >= 3
    /\ tickLog[1].ref = <<>>
    /\ Len(tickLog[1].text) > 15
    /\ tickLog[2].text = tickLog[1].text
    /\ tickLog[3].text = tickLog[1].text

\* C26: from a fresh session in hybrid mode, three ticks in a row that read
\* the same text of more than 15 characters are three raw candidates against
\* the empty reference, and the third escalates to the oracle
FreshSessionEscalates ==
    SameLongTextThrice =>
        /\ \A i \in 1..3 : tickLog[i].rawChange /\ tickLog[i].ref = <<>>
        /\ ~tickLog[1].escalated
        /\ ~tickLog[2].escalated
        /\ tickLog[3].escalated
        /\ tickLog[3].after = 0

\* C26 witness: the third tick on the question has escalated and awaits the
\* oracle's answer
ThirdTickAsksOracle ==
    \E t \in LoopIds :
        /\ Len(tickLog) = 3
        /\ SameLongTextThrice
        /\ tickLog[3].text = ScenarioNew
        /\ tickLog[3].escalated
        /\ ticks = 3
        /\ task[t].pc = "checkForNewQuestion"
        /\ lastOcrTextRef = ScenarioNew

\* tick i escalated and the ticks after it up to tick j read the text it read
SameTextSince(i, j) ==
    /\ tickLog[i].escalated
    /\ \A k \in (i + 1)..j : tickLog[k].text = tickLog[i].text

\* C27: the escalating tick makes the text it read the reference before the
\* oracle answers; the ticks that read the same text after it are no raw
\* candidates and do not escalate, and when the oracle has not answered "new"
\* no analysis has run by then: the oracle is not asked again until the
\* text read changes
NoSecondAskForSameText ==
    /\ [](\A t \in LoopIds : \A i \in 1..Len(tickLog) : \A j \in (i + 1)..Len(tickLog) :
            SameTextSince(i, j) =>
                /\ tickLog[j].ref = tickLog[i].text
                /\ ~tickLog[j].rawChange
                /\ ~tickLog[j].escalated
                /\ (i = 3 /\ task[t].oracle \in {"same", "error"} /\ task[t].pc # "idle")
                      => /\ task[t].pc \in {"armed", "detectText"}
                         /\ task[t].calls = 0
                         /\ lastResult = NoResult
                         /\ lastScreenshotRef = NoFrame)
    /\ [][\A t \in LoopIds :
             (OcrAnswers(t) /\ LastTick'.escalated) =>
                 /\ task'[t].pc = "checkForNewQuestion"
                 /\ lastOcrTextRef' = LastTick'.text]_vars

\* C27 witness: the third tick escalated on the question, the oracle
\* answered an error, and the fourth tick has read the question again
\* without becoming a candidate
SameTextNotAskedAgain ==
    \E t \in LoopIds :
        /\ Len(tickLog) = 4
        /\ SameTextSince(3, 4)
        /\ tickLog[4].text = ScenarioNew
        /\ ~tickLog[4].rawChange
        /\ task[t].oracle = "error"
        /\ task[t].pc = "armed"
        /\ task[t].calls = 0
        /\ lastResult = NoResult

\* an analysis (performAnalysis past its key check) is in flight
AnalysisInFlight == \E t \in TaskIds : task[t].pc \in AnalysisPcs

\* C28: processingRef is true exactly while an analysis is in flight
BusyTracksAnalyses == processingRef <=> AnalysisInFlight

\* the analysis of activity t was answered by the probe, the last attempt,
\* after the attempts that solve had failed
ProbeAnswered(t) ==
    /\ Answered(t)
    /\ ~AllAttemptsFail(task[t].served.replies)
    /\ AttemptsMade(task[t].served.replies) = maxRetriesAnalyze

\* C29: a call answered only by the probe returns hasQuestion = true with
\* no question, no option and no error; the analysis sends no dispatch and
\* calls no verification, and with auto-select enabled it ends in the
\* "no clear answer" report
ProbeNeverDispatches ==
    \A t \in TaskIds :
        ProbeAnswered(t) =>
            /\ lastResult[1].hasQuestion
            /\ lastResult[1].questions = <<>>
            /\ lastResult[1].hasOptions /\ lastResult[1].options = <<>>
            /\ lastResult[1].error = <<>>
            /\ lastResult[1].attempts = 3
            /\ task[t].sent = <<>>
            /\ task[t].verifications = 0
            /\ task[t].pc = "idle"
            /\ task[t].report = IF task[t].cfg.autoSelect THEN "noClearAnswer" ELSE ""

\* C29 witness: with auto-select enabled, two attempts failed, the probe read
\* text that is no JSON, and the analysis ended in the "no clear answer"
\* report
ProbeEndsInNoClearAnswer ==
    \E t \in TaskIds :
        /\ ProbeAnswered(t)
        /\ task[t].cfg.autoSelect
        /\ task[t].served.replies = <<EmptyReply, ThrowOverload, BadReply>>
        /\ lastResult[1] = ProbeResult(FALLBACK_MODEL, 3)
        /\ task[t].report = "noClearAnswer"
        /\ task[t].sent = <<>>

\* C30: in every state between the steps of the ticks the stability counter
\* is 0, 1 or 2: the tick that would make it 3 resets it to 0 before it
\* gives up control
StabilityBelowTarget == ocrStabilityCounterRef \in 0..2

\* C30 witness: after a tick that escalated and reset the counter, two more
\* candidate ticks have brought it to 2 again
CountsToTwoAgain ==
    /\ ocrStabilityCounterRef = 2
    /\ Len(tickLog) >= 5
    /\ tickLog[Len(tickLog)].rawChange
    /\ tickLog[Len(tickLog)].after = 2
    /\ \E i \in 1..(Len(tickLog) - 2) : tickLog[i].escalated /\ tickLog[i].after = 0

====
